---- MODULE Spec2Model ----
(***************************************************************************)
(* A model of the toy blockchain ledger of src/src/blockchain.rs: the      *)
(* Chain structure, its public operations, the Merkle reduction, the       *)
(* proof-of-work loop and the unpadded hexadecimal rendering of digests.   *)
(*                                                                         *)
(* Strings are sequences of one-character strings.  The SHA-256            *)
(* compression of the sha2 crate is abstracted by a deterministic function *)
(* from the serialised input to DigestBytes bytes; everything the          *)
(* repository does with those bytes (rendering, slicing, parsing) is       *)
(* modelled as written.                                                    *)
(***************************************************************************)
EXTENDS Integers, Sequences, FiniteSets, TLC

(***************************************************************************)
(* Bounds of the model.                                                    *)
(***************************************************************************)
\* number of bytes of a digest (32 for SHA-256)
DigestBytes == 2
\* largest nonce the sealing loop is followed to
MaxNonce == 3
\* largest number of blocks in the chain
MaxBlocks == 2
\* largest number of transactions submitted over the life of the chain
MaxSubmitted == 2
\* largest number of transactions in an argument of get_merkle followed on its own
MaxTxs == 4
\* largest number of bytes in an argument of hex_to_string followed on its own
MaxBytes == 2

(***************************************************************************)
(* Program constants.                                                      *)
(***************************************************************************)
\* vec![48; 64] in last_hash: 64 characters ...
SentinelLen == 64
\* ... each the byte 48, the ASCII digit zero
SentinelByte == 48
\* reward: 100.0 in Chain::new
DefaultReward == 100

(***************************************************************************)
(* Input domains.                                                          *)
(***************************************************************************)
Miners == {"miner1"}
Senders == {"Alice"}
Receivers == {"Bob"}
Amounts == {10, -5}
Rewards == {100, 50}
Difficulties == 0..3
Timestamps == {0, 1}

VARIABLES
    chain,        \* Chain.chain: the sealed blocks
    curr_trans,   \* Chain.curr_trans: the pending transactions
    difficulty,   \* Chain.difficulty
    miner_addr,   \* Chain.miner_addr
    reward,       \* Chain.reward
    pc,           \* position of the program: "new", "idle", "pow", "aborted"
    block,        \* the local block of generate_new_block: <<>> or <<b>>
    ret,          \* the value the last operation returned
    call,         \* history: the Chain fields as they were when generate_new_block
                  \* was entered, and the transactions submitted since the call before
    log,          \* history: every transaction passed to new_transaction, in order
    arg,          \* the argument of a running get_merkle (curr_trans) or
                  \* hex_to_string (vec_res) followed on its own
    merkle_vec,   \* get_merkle's local Vec merkle of digests
    hex_s,        \* hex_to_string's local String s
    taken,        \* the number of elements of arg the running for loop has taken
    fpc           \* position in that function: "none", "merkle_hash",
                  \* "merkle_reduce", "hex", "done", "aborted"; "retry" and
                  \* "sealed" once proof_of_work has judged the rendered digest

\* the state of the Chain and of its caller
chain_vars == <<chain, curr_trans, difficulty, miner_addr, reward, pc, block, call, log>>

\* the state of a function followed on its own
locals == <<arg, merkle_vec, hex_s, taken, fpc>>

vars == <<chain, curr_trans, difficulty, miner_addr, reward, pc, block, ret, call, log,
          arg, merkle_vec, hex_s, taken, fpc>>

(***************************************************************************)
(* Strings and the hexadecimal rendering.                                  *)
(***************************************************************************)
HexChars == <<"0", "1", "2", "3", "4", "5", "6", "7",
              "8", "9", "a", "b", "c", "d", "e", "f">>

DecChars == {"0", "1", "2", "3", "4", "5", "6", "7", "8", "9"}

CharCode(c) == CHOOSE i \in 0..15 : HexChars[i + 1] = c

\* String::from_utf8(vec![byte; n]) for an ASCII digit byte
Repeat(byte, n) == [i \in 1..n |-> HexChars[byte - 48 + 1]]

\* "{:02x}": every byte as two digits
LowerHex_Padded(b) == <<HexChars[(b \div 16) + 1], HexChars[(b % 16) + 1]>>

\* write!(&mut s, "{:x}", b) for a u8: lowercase, no leading zero
LowerHex(b) ==
    IF b < 16 THEN <<HexChars[b + 1]>>
    ELSE <<HexChars[(b \div 16) + 1], HexChars[(b % 16) + 1]>>

RECURSIVE hex_to_string(_)
hex_to_string(vec_res) ==
    IF vec_res = <<>> THEN <<>>
    ELSE LowerHex(Head(vec_res)) \o hex_to_string(Tail(vec_res))

(***************************************************************************)
(* Serialisation and hashing.                                              *)
(***************************************************************************)
AddrCodes == <<"Root", "miner1", "Alice", "Bob">>
AddrCode(a) == CHOOSE i \in 1..Len(AddrCodes) : AddrCodes[i] = a

StrCodes(s) == [i \in 1..Len(s) |-> CharCode(s[i])]

\* serde_json::to_string of a Transaction: sender, receiver, amount
to_string_transaction(t) ==
    <<17, AddrCode(t.sender), AddrCode(t.receiver), t.amount + 1000>>

\* serde_json::to_string of a Blockheader: timestamp, nonce, pre_hash, merkle, difficulty
to_string_header(h) ==
    <<18, h.timestamp, h.nonce>> \o StrCodes(h.pre_hash) \o <<16>>
        \o StrCodes(h.merkle) \o <<16, h.difficulty>>

\* serde_json::to_string of a String
to_string_string(s) == <<19>> \o StrCodes(s) \o <<19>>

\* the byte values a digest is made of
Palette == <<0, 1, 10, 18, 26, 48>>

RECURSIVE Absorb(_, _, _)
\* the input positions lo..hi mixed into one number, by halves
Absorb(input, lo, hi) ==
    IF lo > hi THEN 7
    ELSE IF lo = hi THEN (input[lo] * 149 + lo * 17 + 1) % 65521
    ELSE LET mid == (lo + hi) \div 2
         IN  (Absorb(input, lo, mid) * 43 + Absorb(input, mid + 1, hi) * 7 + 3) % 65521

\* Sha256::new(); update(input); finalize(): deterministic, DigestBytes bytes
Sha256(input) ==
    LET h == Absorb(input, 1, Len(input))
        n == Len(Palette)
    IN  [i \in 1..DigestBytes |-> Palette[((h \div (n ^ (i - 1))) % n) + 1]]

hash_transaction(t) == hex_to_string(Sha256(to_string_transaction(t)))
hash_header(h) == hex_to_string(Sha256(to_string_header(h)))
hash_string(s) == hex_to_string(Sha256(to_string_string(s)))

\* last_hash that never looks at the chain
last_hash_AlwaysSentinel(blocks) == Repeat(SentinelByte, SentinelLen)

(***************************************************************************)
(* Chain::last_hash                                                        *)
(***************************************************************************)
\* last_hash with a sentinel one character short
last_hash_ShortSentinel(blocks) ==
    IF blocks = <<>> THEN Repeat(SentinelByte, SentinelLen - 1)
    ELSE hash_header(blocks[Len(blocks)].header)

last_hash(blocks) ==
    IF blocks = <<>> THEN Repeat(SentinelByte, SentinelLen)
    ELSE hash_header(blocks[Len(blocks)].header)

(***************************************************************************)
(* Chain::get_merkle                                                       *)
(***************************************************************************)
\* one round of the while loop pairing the two front digests behind front
\* instead of front before behind
MerkleRound_Swapped(merkle) ==
    LET h2 == merkle[2] \o merkle[1]
    IN  Append(SubSeq(merkle, 3, Len(merkle)), hash_string(h2))

\* one round of the while loop: remove(0) twice, push_str, hash, push
MerkleRound(merkle) ==
    LET h1 == merkle[1] \o merkle[2]
    IN  Append(SubSeq(merkle, 3, Len(merkle)), hash_string(h1))

RECURSIVE MerkleReduce(_)
MerkleReduce(merkle) ==
    IF Len(merkle) > 1
    THEN MerkleReduce(MerkleRound(merkle))
    ELSE merkle

\* the last digest pushed again whatever the length
MerklePad_EveryLength(merkle) ==
    IF merkle # <<>> THEN Append(merkle, merkle[Len(merkle)]) ELSE merkle

MerklePad(merkle) ==
    IF Len(merkle) % 2 = 1 THEN Append(merkle, merkle[Len(merkle)]) ELSE merkle

get_merkle(transactions) ==
    LET merkle == [i \in 1..Len(transactions) |-> hash_transaction(transactions[i])]
    IN  MerkleReduce(MerklePad(merkle))[1]

(***************************************************************************)
(* Chain::proof_of_work, one pass of the loop                              *)
(***************************************************************************)
\* the decimal digits of u32::MAX, 4294967295
U32MaxDigits == <<4, 2, 9, 4, 9, 6, 7, 2, 9, 5>>

RECURSIVE StripZeros(_)
StripZeros(digits) ==
    IF digits # <<>> /\ Head(digits) = 0 THEN StripZeros(Tail(digits)) ELSE digits

RECURSIVE DigitsLess(_, _)
\* a < b for two digit sequences of the same length
DigitsLess(a, b) ==
    IF a = <<>> THEN FALSE
    ELSE IF Head(a) # Head(b) THEN Head(a) < Head(b)
    ELSE DigitsLess(Tail(a), Tail(b))

\* the value exceeds u32::MAX
U32Overflow(digits) ==
    \/ Len(digits) > Len(U32MaxDigits)
    \/ Len(digits) = Len(U32MaxDigits) /\ DigitsLess(U32MaxDigits, digits)

\* str::parse::<u32>: Err for an empty string, a non-digit or an overflow;
\* Ok(val) otherwise, val given by its digits without leading zeros (<<>> is 0)
ParseU32(s) ==
    IF s = <<>> THEN [ok |-> FALSE, val |-> <<>>]
    ELSE IF \E i \in 1..Len(s) : s[i] \notin DecChars THEN [ok |-> FALSE, val |-> <<>>]
    ELSE LET digits == StripZeros(StrCodes(s))
         IN  IF U32Overflow(digits) THEN [ok |-> FALSE, val |-> <<>>]
             ELSE [ok |-> TRUE, val |-> digits]

\* &hash[..difficulty] panics when difficulty exceeds the length
SliceInRange(hash, d) == d <= Len(hash)

\* Slice one character short
Slice_OneShort(hash, d) == SubSeq(hash, 1, d - 1)

Slice(hash, d) == SubSeq(hash, 1, d)

\* PowStops that breaks on every prefix that parses
PowStops_AnyNumber(slice) == ParseU32(slice).ok

\* the match arm that breaks out of the loop: Ok(val) with val = 0
PowStops(slice) == ParseU32(slice).ok /\ ParseU32(slice).val = <<>>

(***************************************************************************)
(* The state after the struct literal of Chain::new (lines 61-67), before  *)
(* the genesis block is generated.                                         *)
(***************************************************************************)
\* a returned bool, a returned String
RetBool(b) == [bool |-> <<b>>, string |-> <<>>]
RetString(str) == [bool |-> <<>>, string |-> <<str>>]

\* no function is followed on its own
NoFunction == arg = <<>> /\ merkle_vec = <<>> /\ hex_s = <<>> /\ taken = 0 /\ fpc = "none"

NoCall == [difficulty |-> 0, reward |-> 0, miner_addr |-> "", submitted |-> <<>>, mark |-> 0]

\* Init with the reward left at zero
Init_ZeroReward ==
    /\ chain = <<>>
    /\ curr_trans = <<>>
    /\ difficulty \in Difficulties
    /\ miner_addr \in Miners
    /\ reward = 0
    /\ pc = "new"
    /\ block = <<>>
    /\ ret = RetBool(TRUE)
    /\ call = NoCall
    /\ log = <<>>
    /\ NoFunction

Init ==
    /\ chain = <<>>
    /\ curr_trans = <<>>
    /\ difficulty \in Difficulties
    /\ miner_addr \in Miners
    /\ reward = DefaultReward
    /\ pc = "new"
    /\ block = <<>>
    /\ ret = RetBool(TRUE)
    /\ call = NoCall
    /\ log = <<>>
    /\ NoFunction

(***************************************************************************)
(* Chain::generate_new_block, lines 186-209: the block is built, the       *)
(* pending transactions are moved into it and the Merkle root is set.      *)
(* Called by Chain::new (pc = "new") and by the caller (pc = "idle").      *)
(***************************************************************************)
\* RewardTrans that always pays the default reward
RewardTrans_DefaultReward ==
    [sender |-> "Root", receiver |-> miner_addr, amount |-> DefaultReward]

RewardTrans == [sender |-> "Root", receiver |-> miner_addr, amount |-> reward]

NewHeader(now) ==
    [timestamp |-> now, nonce |-> 0, pre_hash |-> last_hash(chain),
     merkle |-> <<>>, difficulty |-> difficulty]

\* BuildBlock with the reward transaction pushed after the pending ones
BuildBlock_RewardLast(now) ==
    LET transactions == curr_trans \o <<RewardTrans>>
    IN  [header |-> [NewHeader(now) EXCEPT !.merkle = get_merkle(transactions)],
         count |-> Len(transactions),
         transactions |-> transactions]

\* generate_new_block taking the Merkle root before the pending transactions
\* are moved into the block
BuildBlock_MerkleBeforeAppend(now) ==
    LET transactions == <<RewardTrans>> \o curr_trans
    IN  [header |-> [NewHeader(now) EXCEPT !.merkle = get_merkle(<<RewardTrans>>)],
         count |-> Len(transactions),
         transactions |-> transactions]

\* generate_new_block taking the count before the pending transactions are
\* moved into the block
BuildBlock_CountBeforeAppend(now) ==
    LET transactions == <<RewardTrans>> \o curr_trans
    IN  [header |-> [NewHeader(now) EXCEPT !.merkle = get_merkle(transactions)],
         count |-> 1,
         transactions |-> transactions]

BuildBlock(now) ==
    LET transactions == <<RewardTrans>> \o curr_trans
    IN  [header |-> [NewHeader(now) EXCEPT !.merkle = get_merkle(transactions)],
         count |-> Len(transactions),
         transactions |-> transactions]

GenerateAt(now) ==
    /\ pc \in {"new", "idle"}
    /\ Len(chain) < MaxBlocks
    /\ block' = <<BuildBlock(now)>>
    /\ curr_trans' = <<>>
    /\ pc' = "pow"
    /\ call' = [difficulty |-> difficulty, reward |-> reward,
                miner_addr |-> miner_addr,
                submitted |-> SubSeq(log, call.mark + 1, Len(log)), mark |-> Len(log)]
    /\ UNCHANGED <<chain, difficulty, miner_addr, reward, ret, log>>
    /\ UNCHANGED locals

GenerateBegin == \E now \in Timestamps : GenerateAt(now)

(***************************************************************************)
(* One pass of the loop of Chain::proof_of_work on the local block's       *)
(* header, lines 285-303.                                                  *)
(***************************************************************************)
\* a digest shorter than the difficulty counted as a failed attempt
PowPanic_Retries ==
    /\ pc = "pow"
    /\ ~SliceInRange(hash_header(block[1].header), block[1].header.difficulty)
    /\ block[1].header.nonce < MaxNonce
    /\ block' = <<[block[1] EXCEPT !.header.nonce = @ + 1]>>
    /\ UNCHANGED <<chain, curr_trans, difficulty, miner_addr, reward, pc, ret, call, log>>
    /\ UNCHANGED locals

\* the slice is out of range: the program panics and the block is dropped
PowPanic ==
    /\ pc = "pow"
    /\ ~SliceInRange(hash_header(block[1].header), block[1].header.difficulty)
    /\ pc' = "aborted"
    /\ block' = <<>>
    /\ UNCHANGED <<chain, curr_trans, difficulty, miner_addr, reward, ret, call, log>>
    /\ UNCHANGED locals

\* a retry that passes over a nonce
PowRetry_SkipsOne ==
    /\ pc = "pow"
    /\ LET header == block[1].header
           hash == hash_header(header)
       IN  /\ SliceInRange(hash, header.difficulty)
           /\ ~PowStops(Slice(hash, header.difficulty))
           /\ header.nonce + 1 < MaxNonce
           /\ block' = <<[block[1] EXCEPT !.header.nonce = @ + 2]>>
    /\ UNCHANGED <<chain, curr_trans, difficulty, miner_addr, reward, pc, ret, call, log>>
    /\ UNCHANGED locals

\* Ok(val) with val != 0, or Err(_): the nonce is incremented
PowRetry ==
    /\ pc = "pow"
    /\ LET header == block[1].header
           hash == hash_header(header)
       IN  /\ SliceInRange(hash, header.difficulty)
           /\ ~PowStops(Slice(hash, header.difficulty))
           /\ header.nonce < MaxNonce
           /\ block' = <<[block[1] EXCEPT !.header.nonce = @ + 1]>>
    /\ UNCHANGED <<chain, curr_trans, difficulty, miner_addr, reward, pc, ret, call, log>>
    /\ UNCHANGED locals

\* PowBreak that overwrites the chain with the new block
PowBreak_Overwrite ==
    /\ pc = "pow"
    /\ LET header == block[1].header
           hash == hash_header(header)
       IN  /\ SliceInRange(hash, header.difficulty)
           /\ PowStops(Slice(hash, header.difficulty))
    /\ chain' = <<block[1]>>
    /\ block' = <<>>
    /\ pc' = "idle"
    /\ ret' = RetBool(TRUE)
    /\ UNCHANGED <<curr_trans, difficulty, miner_addr, reward, call, log>>
    /\ UNCHANGED locals

\* Ok(0): the loop breaks; lines 213-215 push the block and return true
PowBreak ==
    /\ pc = "pow"
    /\ LET header == block[1].header
           hash == hash_header(header)
       IN  /\ SliceInRange(hash, header.difficulty)
           /\ PowStops(Slice(hash, header.difficulty))
    /\ chain' = Append(chain, block[1])
    /\ block' = <<>>
    /\ pc' = "idle"
    /\ ret' = RetBool(TRUE)
    /\ UNCHANGED <<curr_trans, difficulty, miner_addr, reward, call, log>>
    /\ UNCHANGED locals

(***************************************************************************)
(* The other public operations, called between two generate_new_block.     *)
(***************************************************************************)
\* new_transaction refusing an amount that is not positive
new_transaction_RejectsNonPositive(sender, receiver, amount) ==
    /\ pc = "idle"
    /\ Len(log) < MaxSubmitted
    /\ curr_trans' = IF amount > 0
                     THEN Append(curr_trans,
                                 [sender |-> sender, receiver |-> receiver, amount |-> amount])
                     ELSE curr_trans
    /\ ret' = RetBool(amount > 0)
    /\ log' = Append(log, [sender |-> sender, receiver |-> receiver, amount |-> amount])
    /\ UNCHANGED <<chain, difficulty, miner_addr, reward, pc, block, call>>
    /\ UNCHANGED locals

new_transaction(sender, receiver, amount) ==
    /\ pc = "idle"
    /\ Len(log) < MaxSubmitted
    /\ curr_trans' = Append(curr_trans,
                            [sender |-> sender, receiver |-> receiver, amount |-> amount])
    /\ ret' = RetBool(TRUE)
    /\ log' = Append(log, [sender |-> sender, receiver |-> receiver, amount |-> amount])
    /\ UNCHANGED <<chain, difficulty, miner_addr, reward, pc, block, call>>
    /\ UNCHANGED locals

\* update_difficulty that keeps the old value when asked for more than 2
update_difficulty_Clamped(d) ==
    /\ pc = "idle"
    /\ difficulty' = IF d > 2 THEN difficulty ELSE d
    /\ ret' = RetBool(TRUE)
    /\ UNCHANGED <<chain, curr_trans, miner_addr, reward, pc, block, call, log>>
    /\ UNCHANGED locals

update_difficulty(d) ==
    /\ pc = "idle"
    /\ difficulty' = d
    /\ ret' = RetBool(TRUE)
    /\ UNCHANGED <<chain, curr_trans, miner_addr, reward, pc, block, call, log>>
    /\ UNCHANGED locals

update_reward(r) ==
    /\ pc = "idle"
    /\ reward' = r
    /\ ret' = RetBool(TRUE)
    /\ UNCHANGED <<chain, curr_trans, difficulty, miner_addr, pc, block, call, log>>
    /\ UNCHANGED locals

\* last_hash as a public call; on the empty chain it is what
\* test_chain_last_hash_empty_chain calls on the struct literal
LastHash ==
    /\ pc \in {"new", "idle"}
    /\ ret' = RetString(last_hash(chain))
    /\ UNCHANGED <<chain, curr_trans, difficulty, miner_addr, reward, pc, block, call, log>>
    /\ UNCHANGED locals

NewTransaction ==
    \E s \in Senders, r \in Receivers, a \in Amounts : new_transaction(s, r, a)

UpdateDifficulty == \E d \in Difficulties : update_difficulty(d)

UpdateReward == \E r \in Rewards : update_reward(r)

Next ==
    \/ GenerateBegin
    \/ PowPanic
    \/ PowRetry
    \/ PowBreak
    \/ NewTransaction
    \/ UpdateDifficulty
    \/ UpdateReward
    \/ LastHash

Spec == Init /\ [][Next]_vars

(***************************************************************************)
(* get_merkle followed statement by statement on an argument of its own.   *)
(***************************************************************************)
\* the transactions an argument is made of: a reward transaction and the
\* transactions a caller can submit
Transactions ==
    {[sender |-> "Root", receiver |-> m, amount |-> DefaultReward] : m \in Miners}
    \cup {[sender |-> sender, receiver |-> receiver, amount |-> amount] :
              sender \in Senders, receiver \in Receivers, amount \in Amounts}

\* no Chain is involved
NoChain ==
    /\ chain = <<>>
    /\ curr_trans = <<>>
    /\ difficulty = 0
    /\ miner_addr = ""
    /\ reward = 0
    /\ pc = "none"
    /\ block = <<>>
    /\ call = NoCall
    /\ log = <<>>

\* nothing returned yet
NoRet == [bool |-> <<>>, string |-> <<>>]

MerkleInit ==
    /\ NoChain
    /\ ret = NoRet
    /\ arg \in UNION {[1..n -> Transactions] : n \in 0..MaxTxs}
    /\ merkle_vec = <<>>
    /\ hex_s = <<>>
    /\ taken = 0
    /\ fpc = "merkle_hash"

\* for t in &curr_trans: hash t and push the digest
MerkleHash ==
    /\ fpc = "merkle_hash"
    /\ taken < Len(arg)
    /\ merkle_vec' = Append(merkle_vec, hash_transaction(arg[taken + 1]))
    /\ taken' = taken + 1
    /\ UNCHANGED <<arg, hex_s, fpc, ret>>
    /\ UNCHANGED chain_vars

\* the for loop is over: if merkle.len() % 2 == 1, push a clone of the last
MerkleDuplicate ==
    /\ fpc = "merkle_hash"
    /\ taken = Len(arg)
    /\ merkle_vec' = MerklePad(merkle_vec)
    /\ fpc' = "merkle_reduce"
    /\ UNCHANGED <<arg, hex_s, taken, ret>>
    /\ UNCHANGED chain_vars

\* while merkle.len() > 1: one round
MerkleRoundStep ==
    /\ fpc = "merkle_reduce"
    /\ Len(merkle_vec) > 1
    /\ merkle_vec' = MerkleRound(merkle_vec)
    /\ UNCHANGED <<arg, hex_s, taken, fpc, ret>>
    /\ UNCHANGED chain_vars

\* merkle.pop().unwrap() on the one digest left
MerkleReturn ==
    /\ fpc = "merkle_reduce"
    /\ Len(merkle_vec) = 1
    /\ ret' = RetString(merkle_vec[1])
    /\ merkle_vec' = <<>>
    /\ fpc' = "done"
    /\ UNCHANGED <<arg, hex_s, taken>>
    /\ UNCHANGED chain_vars

\* merkle.pop().unwrap() on an empty Vec: unwrap of None panics
MerkleUnwrapNone ==
    /\ fpc = "merkle_reduce"
    /\ Len(merkle_vec) = 0
    /\ fpc' = "aborted"
    /\ UNCHANGED <<arg, merkle_vec, hex_s, taken, ret>>
    /\ UNCHANGED chain_vars

MerkleNext ==
    \/ MerkleHash
    \/ MerkleDuplicate
    \/ MerkleRoundStep
    \/ MerkleReturn
    \/ MerkleUnwrapNone

MerkleSpec == MerkleInit /\ [][MerkleNext]_vars

(***************************************************************************)
(* hex_to_string followed byte by byte on an argument of its own.          *)
(***************************************************************************)
\* the bytes an argument is made of: both sides of 0x10, the ends of the
\* range, and the bytes of the test's "Hello"
ByteValues == {0, 1, 9, 10, 15, 16, 17, 72, 101, 108, 111, 160, 255}

\* vec![0x48, 0x65, 0x6c, 0x6c, 0x6f] of test_chain_hex_to_string
Hello == <<72, 101, 108, 108, 111>>

HexInit ==
    /\ NoChain
    /\ ret = NoRet
    /\ arg \in UNION {[1..n -> ByteValues] : n \in 0..MaxBytes} \cup {Hello}
    /\ merkle_vec = <<>>
    /\ hex_s = <<>>
    /\ taken = 0
    /\ fpc = "hex"

\* for b in vec_res: write!(&mut s, "{:x}", b)
HexWrite ==
    /\ fpc = "hex"
    /\ taken < Len(arg)
    /\ hex_s' = hex_s \o LowerHex(arg[taken + 1])
    /\ taken' = taken + 1
    /\ UNCHANGED <<arg, merkle_vec, fpc, ret>>
    /\ UNCHANGED chain_vars

\* the loop is over: s is returned
HexReturn ==
    /\ fpc = "hex"
    /\ taken = Len(arg)
    /\ ret' = RetString(hex_s)
    /\ fpc' = "done"
    /\ UNCHANGED <<arg, merkle_vec, hex_s, taken>>
    /\ UNCHANGED chain_vars

HexNext ==
    \/ HexWrite
    \/ HexReturn

HexSpec == HexInit /\ [][HexNext]_vars

(***************************************************************************)
(* One pass of the loop of proof_of_work on a digest of its own: the bytes *)
(* of the digest are rendered by hex_to_string, then sliced and parsed.    *)
(***************************************************************************)
\* the digest is any DigestBytes bytes, the header's difficulty any difficulty
DigestInit ==
    /\ chain = <<>>
    /\ curr_trans = <<>>
    /\ difficulty \in Difficulties
    /\ miner_addr = ""
    /\ reward = 0
    /\ pc = "none"
    /\ block = <<>>
    /\ call = NoCall
    /\ log = <<>>
    /\ ret = NoRet
    /\ arg \in [1..DigestBytes -> ByteValues]
    /\ merkle_vec = <<>>
    /\ hex_s = <<>>
    /\ taken = 0
    /\ fpc = "hex"

\* &hash[..header.difficulty as usize] is out of range: the panic
PassPanic ==
    /\ fpc = "done"
    /\ ~SliceInRange(ret.string[1], difficulty)
    /\ fpc' = "aborted"
    /\ UNCHANGED <<arg, merkle_vec, hex_s, taken, ret>>
    /\ UNCHANGED chain_vars

\* Ok(val) with val != 0, or Err(_): the attempt failed
PassRetry ==
    /\ fpc = "done"
    /\ SliceInRange(ret.string[1], difficulty)
    /\ ~PowStops(Slice(ret.string[1], difficulty))
    /\ fpc' = "retry"
    /\ UNCHANGED <<arg, merkle_vec, hex_s, taken, ret>>
    /\ UNCHANGED chain_vars

\* Ok(0): the header is sealed
PassBreak ==
    /\ fpc = "done"
    /\ SliceInRange(ret.string[1], difficulty)
    /\ PowStops(Slice(ret.string[1], difficulty))
    /\ fpc' = "sealed"
    /\ UNCHANGED <<arg, merkle_vec, hex_s, taken, ret>>
    /\ UNCHANGED chain_vars

DigestNext ==
    \/ HexWrite
    \/ HexReturn
    \/ PassPanic
    \/ PassRetry
    \/ PassBreak

DigestSpec == DigestInit /\ [][DigestNext]_vars

(***************************************************************************)
(* test_chain_last_hash_non_empty_chain: Chain::new with difficulty 1, one *)
(* new_transaction, one generate_new_block, last_hash, run at any time.    *)
(***************************************************************************)
\* the clock readings the test may get from Utc::now()
TestTimestamps == 0..9

\* Chain::new(String::from("miner1"), 1)
TestInit ==
    /\ Init
    /\ miner_addr = "miner1"
    /\ difficulty = 1

\* generate_new_block: the one inside Chain::new, and the test's own once
\* its transaction is submitted
TestGenerate ==
    /\ pc = "new" \/ (Len(chain) = 1 /\ Len(log) = 1)
    /\ \E now \in TestTimestamps : GenerateAt(now)

\* chain.new_transaction(String::from("Alice"), String::from("Bob"), 10.0)
TestNewTransaction ==
    /\ Len(chain) = 1
    /\ log = <<>>
    /\ new_transaction("Alice", "Bob", 10)

\* let hash = chain.last_hash()
TestLastHash ==
    /\ Len(chain) = 2
    /\ ret.string = <<>>
    /\ LastHash

\* at difficulty 1 no digest is shorter than the difficulty, so the slice of
\* proof_of_work is always in range and PowPanic has no part in the test
TestNext ==
    \/ TestGenerate
    \/ PowRetry
    \/ PowBreak
    \/ TestNewTransaction
    \/ TestLastHash

TestSpec == TestInit /\ [][TestNext]_vars

(***************************************************************************)
(* Notions the properties are stated with.                                 *)
(***************************************************************************)
Last(s) == s[Len(s)]

Range(s) == {s[k] : k \in 1..Len(s)}

Zeros(n) == [i \in 1..n |-> "0"]

IsPrefix(s, t) == Len(s) <= Len(t) /\ SubSeq(t, 1, Len(s)) = s

\* the first d characters of a digest, <<>> when it is shorter than d
Prefix(digest, d) == IF d <= Len(digest) THEN SubSeq(digest, 1, d) ELSE <<>>

\* the step on which generate_new_block returns
GenerateReturns == pc = "pow" /\ pc' = "idle"

\* the digest of the header being sealed, as it would be with nonce n
AttemptDigest(n) == hash_header([block[1].header EXCEPT !.nonce = n])

(***************************************************************************)
(* C1..C5                                                                  *)
(***************************************************************************)
\* C1: when generate_new_block returns, the appended block's transactions are
\* the reward transaction {Root, miner_addr, reward}, with the miner address and
\* reward of the moment of the call, followed by the transactions submitted
\* since the previous call in submission order, and curr_trans is empty.
C1_BlockIsRewardThenSubmitted ==
    [][GenerateReturns =>
        /\ Len(chain') = Len(chain) + 1
        /\ Last(chain').transactions =
              <<[sender |-> "Root", receiver |-> call.miner_addr, amount |-> call.reward]>>
                  \o call.submitted
        /\ curr_trans' = <<>>]_vars

C1_Witness ==
    /\ pc = "idle"
    /\ Len(chain) = 2
    /\ Len(Last(chain).transactions) = 3
    /\ Last(chain).transactions[2] # Last(chain).transactions[3]
    /\ Last(chain).transactions[1].sender = "Root"
    /\ curr_trans = <<>>

\* C2: every block after the first has pre_hash equal to the digest of the
\* stored (sealed) header of the block before it.
C2_PreHashLinksPredecessor ==
    \A i \in 2..Len(chain) :
        chain[i].header.pre_hash = hash_header(chain[i - 1].header)

C2_Witness ==
    /\ Len(chain) = 2
    /\ chain[1].header.nonce > 0
    /\ chain[2].header.pre_hash = hash_header(chain[1].header)

\* C3: the chain is append-only: on every step the old chain is a prefix of the
\* new one; the step on which generate_new_block returns adds exactly one
\* block, and every other step, those of new_transaction, update_difficulty,
\* update_reward and last_hash among them, adds none.
C3_AppendOnly ==
    [][/\ IsPrefix(chain, chain')
       /\ GenerateReturns => Len(chain') = Len(chain) + 1
       /\ ~GenerateReturns => chain' = chain
       /\ (NewTransaction \/ UpdateDifficulty \/ UpdateReward \/ LastHash) => chain' = chain]_vars

C3_Witness ==
    /\ pc = "idle"
    /\ Len(chain) = 2
    /\ curr_trans # <<>>
    /\ reward # DefaultReward

\* C4: every block of the chain is sealed at its own header.difficulty: the
\* digest of the stored header has at least that many characters and the first
\* header.difficulty of them are '0'; and the difficulty stored in the last
\* block is the chain's difficulty at the moment of the call that made it.
C4_SealedAtCallDifficulty ==
    /\ \A i \in 1..Len(chain) :
          LET digest == hash_header(chain[i].header)
          IN  /\ chain[i].header.difficulty <= Len(digest)
              /\ \A k \in 1..chain[i].header.difficulty : digest[k] = "0"
    /\ (pc = "idle" => Last(chain).header.difficulty = call.difficulty)

C4_Witness ==
    /\ pc = "idle"
    /\ Len(chain) = 2
    /\ chain[1].header.difficulty = 2
    /\ chain[2].header.difficulty = 1
    /\ hash_header(chain[2].header)[1] = "0"
    /\ chain[2].header.nonce > 0

\* C5: the loop is left only with a digest whose first header.difficulty
\* characters are all '0', and the block pushed carries that header; a prefix
\* of digits that is not all '0' (such as "123") and a prefix with a non-digit
\* (such as "1a0") keep the loop running with the nonce incremented by one.
C5_StopsOnlyOnZeros ==
    [][pc = "pow" =>
        LET header == block[1].header
            digest == hash_header(header)
            prefix == Prefix(digest, header.difficulty)
        IN  /\ pc' = "idle" =>
                /\ header.difficulty <= Len(digest)
                /\ prefix = Zeros(header.difficulty)
                /\ Last(chain').header = header
            /\ (header.difficulty <= Len(digest) /\ \E k \in 1..Len(prefix) : prefix[k] # "0") =>
                /\ pc' = "pow"
                /\ block'[1].header = [header EXCEPT !.nonce = header.nonce + 1]]_vars

C5_Witness ==
    /\ pc = "pow"
    /\ block[1].header.difficulty = 3
    /\ \A n \in 0..(block[1].header.nonce - 1) : Len(AttemptDigest(n)) >= 3
    /\ \E j, k \in 0..(block[1].header.nonce - 1) :
          /\ Prefix(AttemptDigest(j), 3) = <<"1", "2", "3">>
          /\ Prefix(AttemptDigest(k), 3) = <<"1", "a", "0">>

(***************************************************************************)
(* C6..C10                                                                 *)
(***************************************************************************)
\* C6: for every difficulty not exceeding the digest length, 0 included, the
\* loop stops on an attempt if and only if the digest's prefix of that length
\* is that many copies of '0'.
C6_StopIffZerosPrefix ==
    [][pc = "pow" =>
        LET header == block[1].header
            digest == hash_header(header)
        IN  header.difficulty <= Len(digest) =>
                (pc' = "idle" <=> Prefix(digest, header.difficulty) = Zeros(header.difficulty))]_vars

\* C7: last_hash returns the literal of 64 '0' characters on the empty chain
\* and the digest of the last block's header otherwise, and changes nothing;
\* the first block, made on the empty chain, carries that literal as pre_hash.
C7_LastHashValue ==
    [][/\ LastHash =>
            /\ ret'.string = <<IF chain = <<>> THEN Zeros(64)
                               ELSE hash_header(Last(chain).header)>>
            /\ UNCHANGED <<chain, curr_trans, difficulty, miner_addr, reward, pc, block>>
       /\ (GenerateReturns /\ chain = <<>>) => chain'[1].header.pre_hash = Zeros(64)]_vars

C7_Witness ==
    /\ pc = "idle"
    /\ Len(chain) = 2
    /\ ret.string = <<hash_header(chain[2].header)>>
    /\ Len(hash_header(chain[2].header)) < 64
    /\ chain[1].header.pre_hash = Zeros(64)

\* C8: when Chain::new returns, the chain holds exactly the genesis block, with
\* pre_hash the 64-'0' sentinel, header.difficulty the difficulty given and the
\* single transaction {Root, miner_addr, 100}; curr_trans is empty and reward
\* is 100.
C8_GenesisAfterNew ==
    [][(GenerateReturns /\ chain = <<>>) =>
        /\ Len(chain') = 1
        /\ chain'[1].header.pre_hash = Zeros(64)
        /\ chain'[1].header.difficulty = difficulty'
        /\ chain'[1].transactions =
              <<[sender |-> "Root", receiver |-> miner_addr', amount |-> 100]>>
        /\ curr_trans' = <<>>
        /\ reward' = 100
        /\ <<difficulty', miner_addr', reward'>> = <<difficulty, miner_addr, reward>>
        /\ <<difficulty, miner_addr>> = <<call.difficulty, call.miner_addr>>]_vars

C8_Witness ==
    /\ pc = "idle"
    /\ Len(chain) = 1
    /\ chain[1].header.difficulty = 2
    /\ chain[1].header.nonce > 0
    /\ chain[1].count = 1
    /\ curr_trans = <<>>
    /\ reward = 100
    /\ log = <<>>

\* C9: update_reward(v) sets reward to v and returns true without touching the
\* chain; nothing else changes reward; and the reward transaction of a block
\* carries the reward in force when its generate_new_block was called.
C9_RewardUpdate ==
    [][/\ \A v \in Rewards : update_reward(v) =>
              /\ reward' = v
              /\ ret' = RetBool(TRUE)
              /\ chain' = chain
       /\ reward' # reward => UpdateReward
       /\ GenerateReturns =>
              /\ Last(chain').transactions[1].amount = reward
              /\ reward = call.reward]_vars

C9_Witness ==
    /\ pc = "idle"
    /\ Len(chain) = 2
    /\ chain[1].transactions[1].amount = 100
    /\ chain[2].transactions[1].amount = 50
    /\ reward = 100

\* C10: update_difficulty(v) sets difficulty to v, for every v, returns true
\* and leaves the chain, curr_trans, reward and miner_addr as they were; only
\* update_difficulty changes difficulty, and a block's header carries the
\* difficulty in force when its generate_new_block was called.
C10_DifficultyUpdate ==
    [][/\ \A v \in Difficulties : update_difficulty(v) =>
              /\ difficulty' = v
              /\ ret' = RetBool(TRUE)
              /\ UNCHANGED <<chain, curr_trans, reward, miner_addr>>
       /\ difficulty' # difficulty => UpdateDifficulty
       /\ (pc # "pow" /\ pc' = "pow") => block'[1].header.difficulty = difficulty
       /\ GenerateReturns => Last(chain').header.difficulty = difficulty]_vars

C10_Witness ==
    /\ pc = "idle"
    /\ Len(chain) = 2
    /\ chain[1].header.difficulty = 1
    /\ chain[2].header.difficulty = 2
    /\ difficulty = 3

(***************************************************************************)
(* new_transaction.                                                        *)
(***************************************************************************)
\* the transaction new_transaction builds from its arguments
Submitted(sender, receiver, amount) ==
    [sender |-> sender, receiver |-> receiver, amount |-> amount]

\* C11: new_transaction returns true for every input, a zero or negative
\* amount and a copy of a pending transaction included; it puts exactly that
\* transaction at the end of curr_trans, keeps the earlier entries in their
\* order, and leaves chain, difficulty, reward and miner_addr alone.
C11_SubmitAppendsAtEnd ==
    [][\A sender \in Senders, receiver \in Receivers, amount \in Amounts :
          new_transaction(sender, receiver, amount) =>
              /\ ret' = RetBool(TRUE)
              /\ Len(curr_trans') = Len(curr_trans) + 1
              /\ Last(curr_trans') = Submitted(sender, receiver, amount)
              /\ SubSeq(curr_trans', 1, Len(curr_trans)) = curr_trans
              /\ UNCHANGED <<chain, difficulty, reward, miner_addr>>]_vars

\* a copy of a pending transaction with a negative amount was accepted behind it
C11_Witness ==
    /\ pc = "idle"
    /\ ret = RetBool(TRUE)
    /\ Len(curr_trans) = 2
    /\ curr_trans[1] = curr_trans[2]
    /\ curr_trans[1].amount < 0

(***************************************************************************)
(* The Merkle root and the count of a block.                               *)
(***************************************************************************)
\* the blocks that exist: the sealed ones and the one being sealed
Blocks == chain \o block

\* C12: the merkle field of every block's header is get_merkle of that
\* block's own transactions: it is given that value when the block is built,
\* before proof_of_work, and no attempt, no push and no later step changes
\* it or the transactions.
C12_MerkleOfOwnTransactions ==
    [][/\ (pc # "pow" /\ pc' = "pow") =>
              block'[1].header.merkle = get_merkle(block'[1].transactions)
       /\ (pc = "pow" /\ pc' = "pow") =>
              /\ block'[1].header.merkle = block[1].header.merkle
              /\ block'[1].transactions = block[1].transactions
       /\ GenerateReturns =>
              /\ Last(chain').header.merkle = block[1].header.merkle
              /\ Last(chain').transactions = block[1].transactions
       /\ \A k \in 1..Len(chain) :
              /\ chain'[k].header.merkle = chain[k].header.merkle
              /\ chain'[k].transactions = chain[k].transactions]_vars

\* a block of three transactions was sealed after at least one retry
C12_Witness ==
    /\ pc = "idle"
    /\ Len(chain) = 2
    /\ Len(chain[2].transactions) = 3
    /\ chain[2].header.nonce > 0
    /\ chain[2].header.merkle = get_merkle(chain[2].transactions)

\* C13: the count of every block is the length of its transactions, and that
\* is one more than the number of transactions pending when
\* generate_new_block was called.
C13_CountIsLength ==
    [][/\ \A k \in 1..Len(Blocks') : Blocks'[k].count = Len(Blocks'[k].transactions)
       /\ (pc # "pow" /\ pc' = "pow") => block'[1].count = 1 + Len(curr_trans)
       /\ (pc = "pow" /\ pc' = "pow") => block'[1].count = block[1].count
       /\ GenerateReturns => Last(chain').count = block[1].count]_vars

\* a block generated with two transactions pending has the count three
C13_Witness ==
    /\ pc = "idle"
    /\ Len(chain) = 2
    /\ Len(call.submitted) = 2
    /\ chain[2].count = 3

(***************************************************************************)
(* get_merkle.                                                             *)
(***************************************************************************)
\* the for loop of get_merkle ends and the while loop is reached
MerkleLoopEntered == fpc = "merkle_hash" /\ fpc' = "merkle_reduce"

\* a round of the while loop of get_merkle
MerkleRoundTaken == fpc = "merkle_reduce" /\ fpc' = "merkle_reduce"

\* C14: get_merkle pushes a copy of the last digest once, between the for
\* loop and the first round, exactly when the number of transactions is odd;
\* no round adds a digest beyond the hash of its pair, whatever the length of
\* the queue; the root of one transaction A is hash(hash(A) + hash(A)).
C14_DuplicatesOnceIffOdd ==
    [][/\ MerkleLoopEntered =>
              /\ merkle_vec = [k \in 1..Len(arg) |-> hash_transaction(arg[k])]
              /\ Len(arg) % 2 = 1 =>
                     merkle_vec' = merkle_vec \o <<hash_transaction(arg[Len(arg)])>>
              /\ Len(arg) % 2 = 0 => merkle_vec' = merkle_vec
       /\ MerkleRoundTaken => Len(merkle_vec') = Len(merkle_vec) - 1
       /\ (fpc' = "done" /\ Len(arg) = 1) =>
              ret' = RetString(hash_string(hash_transaction(arg[1])
                                           \o hash_transaction(arg[1])))]_vars

\* three transactions: the while loop is at a queue of odd length after the
\* copy of the third digest was pushed and one round taken
C14_Witness ==
    /\ fpc = "merkle_reduce"
    /\ Len(arg) = 3
    /\ Len(merkle_vec) = 3
    /\ merkle_vec[1] = hash_transaction(arg[3])
    /\ merkle_vec[2] = hash_transaction(arg[3])

(***************************************************************************)
(* hex_to_string.                                                          *)
(***************************************************************************)
\* the number a string of one or two lowercase hexadecimal digits denotes
HexValue(str) ==
    IF Len(str) = 1 THEN CharCode(str[1]) ELSE 16 * CharCode(str[1]) + CharCode(str[2])

\* the number of bytes below 0x10 among the first k of the argument
SmallBytes(k) == Cardinality({j \in 1..k : arg[j] < 16})

\* the number of characters k bytes are written as
Written(k) == 2 * k - SmallBytes(k)

\* C15: hex_to_string writes the bytes in their order, each as lowercase
\* hexadecimal digits without a leading zero: one digit for a byte below
\* 0x10, two otherwise; n bytes give 2n characters less the number of bytes
\* below 0x10, and 48 65 6c 6c 6f gives "48656c6c6f".
C15_UnpaddedLowerHex ==
    /\ \A b \in 0..255 :
           /\ Len(LowerHex(b)) = (IF b < 16 THEN 1 ELSE 2)
           /\ \A k \in 1..Len(LowerHex(b)) : LowerHex(b)[k] \in Range(HexChars)
           /\ HexValue(LowerHex(b)) = b
    /\ fpc \in {"hex", "done"} =>
           /\ Len(hex_s) = Written(taken)
           /\ \A k \in 1..taken :
                  HexValue(SubSeq(hex_s, Written(k - 1) + 1, Written(k))) = arg[k]
    /\ fpc = "done" =>
           /\ taken = Len(arg)
           /\ ret = RetString(hex_s)
           /\ ret = RetString(hex_to_string(arg))
    /\ (fpc = "done" /\ arg = Hello) =>
           ret = RetString(<<"4", "8", "6", "5", "6", "c", "6", "c", "6", "f">>)

\* a byte below 0x10 and a byte above it were written as three characters
C15_Witness ==
    /\ fpc = "done"
    /\ Len(arg) = 2
    /\ arg[1] < 16
    /\ arg[2] >= 16
    /\ Len(ret.string[1]) = 3

(***************************************************************************)
(* The length of the digest of a sealed block.                             *)
(***************************************************************************)
\* the state test_chain_last_hash_non_empty_chain asserts in: the second
\* block is sealed and last_hash has returned
LastHashOfSecondBlock ==
    /\ pc = "idle"
    /\ Len(chain) = 2
    /\ ret = RetString(hash_header(chain[2].header))

\* C16: in that state the string last_hash returned is one character short
\* of the full width of a digest (64 - 1 for the 32 bytes of SHA-256),
\* whatever timestamp and nonce the header has.
C16_LastHashOneShort ==
    LastHashOfSecondBlock => Len(ret.string[1]) = 2 * DigestBytes - 1

(***************************************************************************)
(* The reduction of get_merkle.                                            *)
(***************************************************************************)
\* the digest of two digests put one behind the other
HashPair(h1, h2) == hash_string(h1 \o h2)

\* the digest of the k-th transaction of the argument
Leaf(k) == hash_transaction(arg[k])

\* the root the queue discipline gives, written out for each length: the two
\* front digests leave, the digest of their pair joins at the back
QueueRoot ==
    CASE Len(arg) = 1 -> HashPair(Leaf(1), Leaf(1))
      [] Len(arg) = 2 -> HashPair(Leaf(1), Leaf(2))
      [] Len(arg) = 3 -> HashPair(HashPair(Leaf(1), Leaf(2)), HashPair(Leaf(3), Leaf(3)))
      [] Len(arg) = 4 -> HashPair(HashPair(Leaf(1), Leaf(2)), HashPair(Leaf(3), Leaf(4)))
      [] Len(arg) = 5 -> HashPair(HashPair(Leaf(5), Leaf(5)),
                                  HashPair(HashPair(Leaf(1), Leaf(2)),
                                           HashPair(Leaf(3), Leaf(4))))
      [] Len(arg) = 6 -> HashPair(HashPair(Leaf(5), Leaf(6)),
                                  HashPair(HashPair(Leaf(1), Leaf(2)),
                                           HashPair(Leaf(3), Leaf(4))))

\* the number of steps get_merkle has left: the transactions not hashed yet,
\* the if, a round for each digest but one, and the return
StepsLeft ==
    CASE fpc = "merkle_hash" ->
             (Len(arg) - taken) + 1
                 + (IF arg = <<>> THEN 1 ELSE Len(arg) + (Len(arg) % 2))
      [] fpc = "merkle_reduce" -> IF merkle_vec = <<>> THEN 1 ELSE Len(merkle_vec)
      [] OTHER -> 0

\* get_merkle is at a statement it can execute
MerkleCanStep ==
    \/ fpc = "merkle_hash" /\ taken <= Len(arg)
    \/ fpc = "merkle_reduce"

Satisfies(digest, d) == d <= Len(digest) /\ \A k \in 1..d : digest[k] = "0"

\* proof_of_work starts at nonce 0, goes from one nonce to the next, and the
\* block generate_new_block pushes and returns true on is the block it built
\* with the smallest nonce whose digest satisfies the predicate
SearchFindsSmallestNonce ==
    /\ (pc # "pow" /\ pc' = "pow") => block'[1].header.nonce = 0
    /\ (pc = "pow" /\ pc' = "pow") =>
           block' = <<[block[1] EXCEPT !.header.nonce = block[1].header.nonce + 1]>>
    /\ GenerateReturns =>
           /\ ret' = RetBool(TRUE)
           /\ chain' = Append(chain, block[1])
           /\ Satisfies(hash_header(block[1].header), block[1].header.difficulty)
           /\ \A n \in 0..(block[1].header.nonce - 1) :
                  ~Satisfies(AttemptDigest(n), block[1].header.difficulty)

\* C18 as stated: generate_new_block always completes: it returns true with
\* one block pushed, sealed at the smallest nonce satisfying the predicate,
\* the search going up from 0 one nonce at a time and writing nothing but
\* the nonce; no call ends another way.
C18_AlwaysCompletes ==
    [][/\ SearchFindsSmallestNonce
       /\ pc = "pow" => pc' # "aborted"]_vars

\* C18 amended: a call of generate_new_block that returns has returned true
\* with one block pushed, sealed at the smallest nonce satisfying the
\* predicate, the search going up from 0 one nonce at a time and writing
\* nothing but the nonce; it returns at difficulty 1 or more only, and a call
\* can end in the panic of the slice instead.
C18_ReturnsSmallestNonce ==
    [][/\ SearchFindsSmallestNonce
       /\ GenerateReturns => block[1].header.difficulty >= 1]_vars

\* a block was sealed at nonce 2 or later
C18_Witness ==
    /\ pc = "idle"
    /\ ret = RetBool(TRUE)
    /\ Len(chain) = 2
    /\ chain[2].header.nonce >= 2
    /\ chain[2].header.difficulty >= 1

(***************************************************************************)
(* The slice of proof_of_work.                                             *)
(***************************************************************************)
\* the digest of the attempt proof_of_work is at is shorter than the difficulty
DigestTooShort ==
    /\ pc = "pow"
    /\ block[1].header.difficulty > Len(hash_header(block[1].header))

\* C19: an attempt whose digest is shorter than the header's difficulty ends
\* the program: it is neither retried nor taken as a seal, and the call
\* pushes no block; the length that counts is that of the digest of the
\* attempt at hand, so a call aborts on such an attempt only, also after
\* attempts with longer digests; nothing happens after the abort.
C19_ShortDigestAborts ==
    [][/\ DigestTooShort => (pc' = "aborted" /\ chain' = chain)
       /\ pc' = "aborted" => DigestTooShort
       /\ pc # "aborted"]_vars

\* a call at difficulty 3 with a transaction pending aborted: the chain is
\* still the first block alone
C19_Witness ==
    /\ pc = "aborted"
    /\ call.difficulty = 3
    /\ call.submitted # <<>>
    /\ Len(chain) = 1

(***************************************************************************)
(* The submitted transactions.                                             *)
(***************************************************************************)
\* the transactions of the first k blocks but each block's first, the reward
\* transaction, in chain order
RECURSIVE NonReward(_)
NonReward(k) ==
    IF k = 0 THEN <<>> ELSE NonReward(k - 1) \o Tail(chain[k].transactions)

\* C20: in every state a call has left, the state left by a
\* generate_new_block that did not complete included, the transactions of the
\* blocks other than the reward transactions, in chain order, followed by
\* curr_trans are the transactions passed to new_transaction in their order.
C20_NothingLost ==
    pc \in {"new", "idle", "aborted"} => NonReward(Len(chain)) \o curr_trans = log

(***************************************************************************)
(* Leading zeros of a rendered digest.                                     *)
(***************************************************************************)
\* the digest has been rendered
Rendered == fpc \in {"done", "aborted", "retry", "sealed"}

\* the first d characters of the rendered digest are all '0'
LeadingZeroChars(d) == d <= Len(hex_s) /\ \A k \in 1..d : hex_s[k] = "0"

\* the first d bytes of the digest are all 0x00
LeadingZeroBytes(d) == d <= Len(arg) /\ \A k \in 1..d : arg[k] = 0

\* C21: for every digest and every d from 0 to its number of bytes, the
\* first d characters of the rendering are all '0' exactly when the first d
\* bytes are all 0x00; so a header proof_of_work seals at difficulty d has a
\* digest of d leading zero bytes, rendered in at most two characters a byte
\* less d (64 - d for the 32 bytes of SHA-256).
C21_ZeroCharsAreZeroBytes ==
    /\ Rendered =>
           \A d \in 0..Len(arg) : LeadingZeroChars(d) <=> LeadingZeroBytes(d)
    /\ fpc = "sealed" =>
           /\ LeadingZeroBytes(difficulty)
           /\ Len(hex_s) <= 2 * Len(arg) - difficulty

\* a digest of a zero byte and a byte of two digits was sealed at difficulty
\* 1: its rendering is as long as the bound allows
C21_Witness ==
    /\ fpc = "sealed"
    /\ difficulty = 1
    /\ arg[1] = 0
    /\ arg[2] >= 16
    /\ Len(hex_s) = 2 * Len(arg) - 1

====
